---- MODULE Spec2Model ----
(***************************************************************************)
(* Teacher planner backend: the Week A/B cycle-day calculation and the     *)
(* week timetable assembly of routers/lessons.py, together with the        *)
(* settings, subject and lesson handlers that feed them.                   *)
(*                                                                         *)
(* Dates are proleptic Gregorian ordinals (datetime.date.toordinal()), so  *)
(* that timedelta arithmetic is integer arithmetic and date.weekday() is   *)
(* (ordinal + 6) % 7.  Python's None is NoDate for dates and NoInt for     *)
(* optional integers.                                                      *)
(***************************************************************************)
EXTENDS Integers, Sequences, FiniteSets, TLC

\* ---------------------------------------------------------------------------
\* Bounds of the model
\* ---------------------------------------------------------------------------
\* dates range over DateBase - DateSpan .. DateBase + DateSpan
DateSpan == 9
\* cycle lengths given to the pure functions range over 1 .. MaxCycleLength
MaxCycleLength == 5
\* at most MaxLessons lesson rows and MaxSubjects subject rows are created
MaxLessons == 2
MaxSubjects == 2
MaxPeriod == 2
\* at most MaxItems rows in the notes, resources and todos tables together
MaxItems == 2

\* ---------------------------------------------------------------------------
\* Program constants
\* ---------------------------------------------------------------------------
\* Monday 2025-01-27, the cycle start of the module header's example
DateBase == 739278
\* Python None for an Optional[date]; date ordinals start at 1
NoDate == 0
\* Python None for an Optional[int] (cycle_day)
NoInt == -1
\* Python None for an Optional[datetime] (completed_at)
NoTime == 0
\* Settings column defaults
DefaultPeriodsPerDay == 6
DefaultCycleLength == 10
DefaultYear == 2025
DefaultSemester == 1

Dates == (DateBase - DateSpan)..(DateBase + DateSpan)
CycleLengths == 1..MaxCycleLength

\* ---------------------------------------------------------------------------
\* Python primitives used by the handlers
\* ---------------------------------------------------------------------------
\* date.weekday(): 0 = Monday .. 6 = Sunday
weekday(d) == (d + 6) % 7

\* Python's int % int for a non-zero divisor: floored, the result has the
\* sign of the divisor.
py_mod_truncated(a, b) ==
    IF a >= 0 THEN a % b ELSE -((-a) % b)

py_mod(a, b) ==
    IF b > 0 THEN a % b
    ELSE -((-a) % (-b))

\* Python's int // int for a positive divisor
py_floordiv(a, b) == a \div b

\* ---------------------------------------------------------------------------
\* WEEK A/B CALCULATION FUNCTIONS (routers/lessons.py)
\* ---------------------------------------------------------------------------
RECURSIVE count_loop_with_saturday(_, _, _)
count_loop_with_saturday(current, end_date, working_days) ==
    IF current < end_date
    THEN LET next_day == current + 1
         IN  count_loop_with_saturday(next_day, end_date,
                        IF weekday(next_day) < 6 THEN working_days + 1
                                                 ELSE working_days)
    ELSE working_days

RECURSIVE count_loop(_, _, _)
\* the while loop of count_working_days_between: current is advanced by one
\* day and counted when it is a Monday..Friday
count_loop(current, end_date, working_days) ==
    IF current < end_date
    THEN LET next_day == current + 1
         IN  count_loop(next_day, end_date,
                        IF weekday(next_day) < 5 THEN working_days + 1
                                                 ELSE working_days)
    ELSE working_days

count_forward_inclusive_start(start_date, end_date) ==
    count_loop(start_date, end_date,
               IF weekday(start_date) < 5 THEN 1 ELSE 0)

count_forward(start_date, end_date) ==
    count_loop(start_date, end_date, 0)

count_backward_unsigned(start_date, end_date) ==
    count_forward(end_date, start_date)

\* the end_date < start_date branch: swap the arguments and negate
count_backward(start_date, end_date) ==
    -count_forward(end_date, start_date)

count_working_days_between(start_date, end_date) ==
    IF end_date < start_date THEN count_backward(start_date, end_date)
    ELSE IF end_date = start_date THEN 0
    ELSE count_forward(start_date, end_date)

\* requires cycle_length # 0 (Python raises ZeroDivisionError otherwise; the
\* callers model that case)
calculate_cycle_day_zero_based(target_date, cycle_start_date, cycle_length) ==
    py_mod(count_working_days_between(cycle_start_date, target_date),
           cycle_length)

calculate_cycle_day(target_date, cycle_start_date, cycle_length) ==
    py_mod(count_working_days_between(cycle_start_date, target_date),
           cycle_length) + 1

get_week_label_strict(cycle_day, cycle_length) ==
    LET midpoint == py_floordiv(cycle_length, 2)
        is_week_a == cycle_day < midpoint
    IN  [is_week_a |-> is_week_a,
         label |-> IF is_week_a THEN "Week A" ELSE "Week B"]

get_week_label(cycle_day, cycle_length) ==
    LET midpoint == py_floordiv(cycle_length, 2)
        is_week_a == cycle_day <= midpoint
    IN  [is_week_a |-> is_week_a,
         label |-> IF is_week_a THEN "Week A" ELSE "Week B"]

get_weekday_name(wd) ==
    <<"Monday", "Tuesday", "Wednesday", "Thursday", "Friday",
      "Saturday", "Sunday">>[wd + 1]

\* ---------------------------------------------------------------------------
\* State
\* ---------------------------------------------------------------------------
VARIABLES
    settings_rows,   \* the settings table: a sequence of rows (mapped columns only)
    subjects,        \* the subjects table: set of subject ids
    lessons,         \* the lessons table: set of lesson rows
    next_lesson_id,  \* autoincrement counter of lessons.id
    next_subject_id, \* autoincrement counter of subjects.id
    notes,           \* the notes table: set of note rows
    resources,       \* the resources table: set of resource rows
    todos,           \* the todos table: set of todo rows
    request,         \* the request handled last
    response,        \* its response
    requested_cycle_start_date, \* cycle_start_date of the last PUT /settings that gave one
    call,            \* last application of a pure function (calculator runs)
    workers,         \* the threads of the pool: what each one is doing
    auto_calculated  \* history: ids of the lessons whose request gave no cycle_day

vars == <<settings_rows, subjects, lessons, next_lesson_id, next_subject_id,
          notes, resources, todos,
          request, response, requested_cycle_start_date, call,
          workers, auto_calculated>>

\* the worker threads that run the request handlers
WorkerIds == {1, 2}

\* the lesson items: notes, resources and todos
items == <<notes, resources, todos>>

store == <<settings_rows, subjects, lessons, next_lesson_id, next_subject_id,
           items>>

\* ---------------------------------------------------------------------------
\* models.py: Settings
\* ---------------------------------------------------------------------------
\* the columns the Settings model maps; a loaded Settings instance has
\* exactly these attributes
SettingsColumns ==
    {"id", "periods_per_day", "current_year", "current_semester", "cycle_length"}

\* Settings(): a new row with the column defaults
NewSettings ==
    [id |-> 1,
     periods_per_day |-> DefaultPeriodsPerDay,
     current_year |-> DefaultYear,
     current_semester |-> DefaultSemester,
     cycle_length |-> DefaultCycleLength]

\* db.commit(): only mapped columns of the instance are written
persisted(instance) == [c \in SettingsColumns |-> instance[c]]

\* schemas.py: SettingsResponse read from the instance's attributes; a field
\* the instance does not have takes the schema default
SettingsResponse(instance) ==
    [kind |-> "settings",
     id |-> instance.id,
     periods_per_day |-> instance.periods_per_day,
     current_year |-> instance.current_year,
     current_semester |-> instance.current_semester,
     cycle_length |-> instance.cycle_length,
     cycle_start_date |-> IF "cycle_start_date" \in DOMAIN instance
                          THEN instance.cycle_start_date ELSE NoDate]

HTTPError(status) ==
    [kind |-> "error", status |-> status, exception |-> "HTTPException"]

\* an exception that is not an HTTPException: Internal Server Error
Unhandled(exc) == [kind |-> "error", status |-> 500, exception |-> exc]

\* ---------------------------------------------------------------------------
\* routers/lessons.py: week assembly (steps 2-6 of get_week_timetable)
\* ---------------------------------------------------------------------------
\* order_by(Lesson.date, Lesson.period) on rows of one date; rows that tie
\* come in rowid order
RECURSIVE ordered_by_id(_)
ordered_by_id(rows) ==
    IF rows = {} THEN <<>>
    ELSE LET first == CHOOSE r \in rows : \A o \in rows : r.id <= o.id
         IN  <<first>> \o ordered_by_id(rows \ {first})

RECURSIVE ordered_by_period(_)
ordered_by_period(rows) ==
    IF rows = {} THEN <<>>
    ELSE LET first == CHOOSE r \in rows :
                          \A o \in rows :
                              \/ r.period < o.period
                              \/ r.period = o.period /\ r.id <= o.id
         IN  <<first>> \o ordered_by_period(rows \ {first})

week_start_unsnapped(start_date) == start_date

\* step 2: snap back to the Monday of start_date's week
week_start_of(start_date) ==
    LET days_since_monday == weekday(start_date)
    IN  start_date - days_since_monday

week_end_of(week_start) == week_start + 4

lessons_by_date_one_per_slot(rows, week_start, week_end, current_date) ==
    ordered_by_period({r \in rows : /\ r.date >= week_start
                                    /\ r.date <= week_end
                                    /\ r.date = current_date
                                    /\ \A o \in rows :
                                          (o.date = r.date /\ o.period = r.period)
                                              => r.id <= o.id})

\* steps 3-4: the lessons of the queried range that fall on current_date
lessons_by_date(rows, week_start, week_end, current_date) ==
    ordered_by_period({r \in rows : /\ r.date >= week_start
                                    /\ r.date <= week_end
                                    /\ r.date = current_date})

\* step 5, one iteration of the loop: the DayInfo of day i (0..4)
day_info(i, week_start, week_end, cycle_start_date, cycle_length, rows) ==
    LET current_date == week_start + i
        configured == cycle_start_date # NoDate
        cycle_day == IF configured
                     THEN calculate_cycle_day(current_date, cycle_start_date,
                                              cycle_length)
                     ELSE 0
        week == IF configured
                THEN get_week_label(cycle_day, cycle_length)
                ELSE [is_week_a |-> TRUE, label |-> "Not configured"]
    IN  [date |-> current_date,
         weekday |-> weekday(current_date),
         weekday_name |-> get_weekday_name(weekday(current_date)),
         cycle_day |-> cycle_day,
         is_week_a |-> week.is_week_a,
         week_label |-> week.label,
         lessons |-> lessons_by_date(rows, week_start, week_end, current_date)]

primary_week_of_last(days) == days[Len(days)].week_label

\* "if i == 0: primary_week = week_label"; "Unknown" only for an empty loop
primary_week_of(days) ==
    IF Len(days) = 0 THEN "Unknown" ELSE days[1].week_label

\* requires cycle_start_date = NoDate or cycle_length # 0
WeekTimetable(start_date, cycle_start_date, cycle_length, periods_per_day, rows) ==
    LET week_start == week_start_of(start_date)
        week_end == week_end_of(week_start)
        days == [k \in 1..5 |->
                    day_info(k - 1, week_start, week_end, cycle_start_date,
                             cycle_length, rows)]
    IN  [kind |-> "week",
         week_start |-> week_start,
         week_end |-> week_end,
         primary_week |-> primary_week_of(days),
         periods_per_day |-> periods_per_day,
         days |-> days]

\* ---------------------------------------------------------------------------
\* Request inputs
\* ---------------------------------------------------------------------------
\* cycle start dates a client configures: a Monday and a Saturday
StartDates == {DateBase, DateBase + 5}
\* start_date values of GET /lessons/week: every weekday occurs
RequestDates == (DateBase - 2)..(DateBase + 7)
\* cycle_length values a client sends (the schema accepts any integer)
UpdateCycleLengths == {0, MaxCycleLength}
\* dates of created lessons: a Monday and the Saturday of its week
LessonDates == {DateBase, DateBase + 5}
Periods == 1..MaxPeriod
SubjectIds == 1..(MaxSubjects + 1)
\* subject_id values of lesson requests where the subject is not the point:
\* the first subject and an id no subject has
FirstOrUnknownSubject == {1, MaxSubjects + 1}
\* the periods query parameter of PUT /settings/periods
PeriodsInputs == {0, 12, 13}

LessonIds == 1..(MaxLessons + 1)

\* a field the request leaves unset
Unset == -2

\* LessonUpdate.model_dump(exclude_unset=True): the fields the request set
lesson_update_data_of(lesson_date, period, subject_id, cycle_day) ==
    LET body == [date |-> lesson_date,
                 period |-> period,
                 subject_id |-> subject_id,
                 cycle_day |-> cycle_day]
    IN  [f \in {g \in DOMAIN body : body[g] # Unset} |-> body[f]]

\* SettingsUpdate.model_dump(exclude_unset=True): the fields the request set
update_data_of(periods_per_day, cycle_length, cycle_start_date) ==
    LET body == [periods_per_day |-> periods_per_day,
                 cycle_length |-> cycle_length,
                 cycle_start_date |-> cycle_start_date]
    IN  [f \in {g \in DOMAIN body : body[g] # Unset} |-> body[f]]

\* ---------------------------------------------------------------------------
\* routers/settings.py
\* ---------------------------------------------------------------------------
\* the settings table after get_or_create_settings; its first row is the
\* instance the handler works on
get_or_create_settings_always_new == <<NewSettings>> \o settings_rows

get_or_create_settings ==
    IF settings_rows = <<>> THEN <<NewSettings>> ELSE settings_rows

get_settings ==
    /\ settings_rows' = get_or_create_settings
    /\ request' = [op |-> "get_settings"]
    /\ response' = SettingsResponse(Head(get_or_create_settings))
    /\ UNCHANGED <<subjects, lessons, next_lesson_id, next_subject_id, items,
                   requested_cycle_start_date, call,
                   workers, auto_calculated>>

update_settings(update_data) ==
    LET rows == get_or_create_settings
        \* setattr(settings, field, value) for every field of update_data
        instance == update_data @@ Head(rows)
    IN  /\ settings_rows' = <<persisted(instance)>> \o Tail(rows)
        /\ request' = [op |-> "update_settings"]
        /\ response' = SettingsResponse(instance)
        /\ requested_cycle_start_date' =
               IF "cycle_start_date" \in DOMAIN update_data
               THEN update_data.cycle_start_date
               ELSE requested_cycle_start_date
        /\ UNCHANGED <<subjects, lessons, next_lesson_id, next_subject_id,
                       items, call, workers, auto_calculated>>

periods_below_one(periods) == periods < 1

\* "if periods < 1 or periods > 12"
periods_out_of_range(periods) == periods < 1 \/ periods > 12

set_periods_per_day(periods) ==
    /\ request' = [op |-> "set_periods_per_day", periods |-> periods]
    /\ IF periods_out_of_range(periods)
       THEN /\ response' = HTTPError(400)
            /\ UNCHANGED settings_rows
       ELSE LET rows == get_or_create_settings
                instance == [Head(rows) EXCEPT !.periods_per_day = periods]
            IN  /\ settings_rows' = <<persisted(instance)>> \o Tail(rows)
                /\ response' = SettingsResponse(instance)
    /\ UNCHANGED <<subjects, lessons, next_lesson_id, next_subject_id, items,
                   requested_cycle_start_date, call,
                   workers, auto_calculated>>

\* ---------------------------------------------------------------------------
\* routers/subjects.py
\* ---------------------------------------------------------------------------
create_subject ==
    /\ next_subject_id <= MaxSubjects
    /\ subjects' = subjects \cup {next_subject_id}
    /\ next_subject_id' = next_subject_id + 1
    /\ request' = [op |-> "create_subject"]
    /\ response' = [kind |-> "subject", id |-> next_subject_id]
    /\ UNCHANGED <<settings_rows, lessons, next_lesson_id, items,
                   requested_cycle_start_date, call,
                   workers, auto_calculated>>

\* ---------------------------------------------------------------------------
\* routers/lessons.py: handlers
\* ---------------------------------------------------------------------------
\* reading settings.cycle_start_date from a loaded Settings instance raises
\* AttributeError when the model maps no such column
cycle_start_date_readable(instance) == "cycle_start_date" \in DOMAIN instance

first_settings_or_created == get_or_create_settings

\* the settings table after db.query(Settings).first(): the query reads the
\* first row, if any, and inserts nothing
first_settings == settings_rows

\* what the handler answers for start_date against the stored settings and
\* lessons
week_response(start_date) ==
    IF settings_rows = <<>>
    THEN \* no settings row: the defaults of step 1
         WeekTimetable(start_date, NoDate, DefaultCycleLength,
                       DefaultPeriodsPerDay, lessons)
    ELSE LET settings == Head(settings_rows)
         IN  IF ~cycle_start_date_readable(settings)
             THEN Unhandled("AttributeError")
             ELSE IF /\ settings.cycle_start_date # NoDate
                     /\ settings.cycle_length = 0
             THEN Unhandled("ZeroDivisionError")
             ELSE WeekTimetable(start_date, settings.cycle_start_date,
                                settings.cycle_length,
                                settings.periods_per_day, lessons)

get_week_timetable(start_date) ==
    /\ request' = [op |-> "get_week_timetable", start_date |-> start_date]
    /\ settings_rows' = first_settings
    /\ response' = week_response(start_date)
    /\ UNCHANGED <<subjects, lessons, next_lesson_id, next_subject_id, items,
                   requested_cycle_start_date, call,
                   workers, auto_calculated>>

existing_skipped(lesson_date, period) == FALSE

\* the duplicate query of create_lesson: a stored lesson of that date and period
existing(lesson_date, period) ==
    \E l \in lessons : l.date = lesson_date /\ l.period = period

create_lesson(lesson_date, period, subject_id, cycle_day) ==
    /\ request' = [op |-> "create_lesson", date |-> lesson_date,
                   period |-> period, subject_id |-> subject_id,
                   cycle_day |-> cycle_day]
    /\ IF subject_id \notin subjects
       THEN /\ response' = HTTPError(404)
            /\ UNCHANGED <<lessons, next_lesson_id>>
       ELSE IF existing(lesson_date, period)
       THEN /\ response' = HTTPError(400)
            /\ UNCHANGED <<lessons, next_lesson_id>>
       ELSE IF /\ cycle_day = NoInt
               /\ settings_rows # <<>>
               /\ ~cycle_start_date_readable(Head(settings_rows))
       THEN /\ response' = Unhandled("AttributeError")
            /\ UNCHANGED <<lessons, next_lesson_id>>
       ELSE IF /\ cycle_day = NoInt
               /\ settings_rows # <<>>
               /\ Head(settings_rows).cycle_start_date # NoDate
               /\ Head(settings_rows).cycle_length = 0
       THEN /\ response' = Unhandled("ZeroDivisionError")
            /\ UNCHANGED <<lessons, next_lesson_id>>
       ELSE LET stored_cycle_day ==
                    IF /\ cycle_day = NoInt
                       /\ settings_rows # <<>>
                       /\ Head(settings_rows).cycle_start_date # NoDate
                    THEN calculate_cycle_day(lesson_date,
                             Head(settings_rows).cycle_start_date,
                             Head(settings_rows).cycle_length)
                    ELSE cycle_day
                lesson == [id |-> next_lesson_id, date |-> lesson_date,
                           period |-> period, subject_id |-> subject_id,
                           cycle_day |-> stored_cycle_day]
            IN  /\ Cardinality(lessons) < MaxLessons
                /\ lessons' = lessons \cup {lesson}
                /\ next_lesson_id' = next_lesson_id + 1
                /\ response' = [kind |-> "lesson", lesson |-> lesson]
    /\ UNCHANGED <<settings_rows, subjects, next_subject_id, items,
                   requested_cycle_start_date, call, workers>>
    \* "if lesson_data.cycle_day is None": the cycle_day is left to the handler
    /\ auto_calculated' =
          IF lessons' # lessons /\ cycle_day = NoInt
          THEN auto_calculated \cup {next_lesson_id}
          ELSE auto_calculated

\* INTEGER PRIMARY KEY of SQLite: a new row gets the largest id in the table
\* plus one
next_rowid(ids) ==
    IF ids = {} THEN 1 ELSE (CHOOSE m \in ids : \A i \in ids : i <= m) + 1

ids_of(rows) == {r.id : r \in rows}

\* cascade="all, delete-orphan" of Lesson.notes / resources / todos: the
\* items left when the lessons with the given ids are deleted
without_items_of_nothing(item_rows, lesson_ids) == item_rows

without_items_of(item_rows, lesson_ids) ==
    {r \in item_rows : r.lesson_id \notin lesson_ids}

update_lesson(lesson_id, update_data) ==
    /\ request' = [op |-> "update_lesson", lesson_id |-> lesson_id]
    /\ IF lesson_id \notin ids_of(lessons)
       THEN /\ response' = HTTPError(404)
            /\ UNCHANGED lessons
       ELSE IF /\ "subject_id" \in DOMAIN update_data
               /\ update_data.subject_id \notin subjects
       THEN /\ response' = HTTPError(404)
            /\ UNCHANGED lessons
       ELSE LET lesson == CHOOSE l \in lessons : l.id = lesson_id
                \* setattr(lesson, field, value) for every field of update_data
                updated == update_data @@ lesson
            IN  /\ lessons' = (lessons \ {lesson}) \cup {updated}
                /\ response' = [kind |-> "lesson", lesson |-> updated]
    /\ UNCHANGED <<settings_rows, subjects, next_lesson_id, next_subject_id,
                   items, requested_cycle_start_date, call, workers>>
    /\ auto_calculated' =
          IF response'.kind = "lesson" /\ "cycle_day" \in DOMAIN update_data
          THEN auto_calculated \ {lesson_id}
          ELSE auto_calculated

delete_lesson(lesson_id) ==
    /\ request' = [op |-> "delete_lesson", lesson_id |-> lesson_id]
    /\ IF lesson_id \notin ids_of(lessons)
       THEN /\ response' = HTTPError(404)
            /\ UNCHANGED <<lessons, next_lesson_id, items>>
       ELSE /\ lessons' = {l \in lessons : l.id # lesson_id}
            /\ next_lesson_id' = next_rowid(ids_of(lessons'))
            /\ notes' = without_items_of(notes, {lesson_id})
            /\ resources' = without_items_of(resources, {lesson_id})
            /\ todos' = without_items_of(todos, {lesson_id})
            /\ response' = [kind |-> "no_content"]
    /\ UNCHANGED <<settings_rows, subjects, next_subject_id,
                   requested_cycle_start_date, call, workers>>
    /\ auto_calculated' = auto_calculated \cap ids_of(lessons')

\* ---------------------------------------------------------------------------
\* routers/subjects.py: delete
\* ---------------------------------------------------------------------------
delete_subject(subject_id) ==
    /\ request' = [op |-> "delete_subject", subject_id |-> subject_id]
    /\ IF subject_id \notin subjects
       THEN /\ response' = HTTPError(404)
            /\ UNCHANGED <<subjects, next_subject_id, lessons, next_lesson_id,
                           items>>
       ELSE \* cascade="all, delete-orphan" of Subject.lessons
            LET deleted == {l.id : l \in {m \in lessons :
                                              m.subject_id = subject_id}}
            IN  /\ subjects' = subjects \ {subject_id}
                /\ next_subject_id' = next_rowid(subjects')
                /\ lessons' = {l \in lessons : l.id \notin deleted}
                /\ next_lesson_id' = next_rowid(ids_of(lessons'))
                /\ notes' = without_items_of(notes, deleted)
                /\ resources' = without_items_of(resources, deleted)
                /\ todos' = without_items_of(todos, deleted)
                /\ response' = [kind |-> "no_content"]
    /\ UNCHANGED <<settings_rows, requested_cycle_start_date, call, workers>>
    /\ auto_calculated' = auto_calculated \cap ids_of(lessons')

\* ---------------------------------------------------------------------------
\* routers/lesson_items.py
\* ---------------------------------------------------------------------------
lesson_exists_unchecked(lesson_id) == TRUE

\* get_lesson_or_404: the parent lesson exists
lesson_exists(lesson_id) == lesson_id \in ids_of(lessons)

item_count == Cardinality(notes) + Cardinality(resources) + Cardinality(todos)

create_note(lesson_id) ==
    /\ request' = [op |-> "create_note", lesson_id |-> lesson_id]
    /\ IF ~lesson_exists(lesson_id)
       THEN /\ response' = HTTPError(404)
            /\ UNCHANGED notes
       ELSE LET note == [id |-> next_rowid(ids_of(notes)),
                         lesson_id |-> lesson_id,
                         content |-> "created"]
            IN  /\ item_count < MaxItems
                /\ notes' = notes \cup {note}
                /\ response' = [kind |-> "note", note |-> note]
    /\ UNCHANGED <<settings_rows, subjects, lessons, next_lesson_id,
                   next_subject_id, resources, todos,
                   requested_cycle_start_date, call,
                   workers, auto_calculated>>

create_resource(lesson_id) ==
    /\ request' = [op |-> "create_resource", lesson_id |-> lesson_id]
    /\ IF ~lesson_exists(lesson_id)
       THEN /\ response' = HTTPError(404)
            /\ UNCHANGED resources
       ELSE LET resource == [id |-> next_rowid(ids_of(resources)),
                             lesson_id |-> lesson_id,
                             title |-> "created"]
            IN  /\ item_count < MaxItems
                /\ resources' = resources \cup {resource}
                /\ response' = [kind |-> "resource", resource |-> resource]
    /\ UNCHANGED <<settings_rows, subjects, lessons, next_lesson_id,
                   next_subject_id, notes, todos,
                   requested_cycle_start_date, call,
                   workers, auto_calculated>>

create_todo(lesson_id, is_completed) ==
    /\ request' = [op |-> "create_todo", lesson_id |-> lesson_id]
    /\ IF ~lesson_exists(lesson_id)
       THEN /\ response' = HTTPError(404)
            /\ UNCHANGED todos
       ELSE LET todo == [id |-> next_rowid(ids_of(todos)),
                         lesson_id |-> lesson_id,
                         is_completed |-> is_completed,
                         completed_at |-> NoTime]
            IN  /\ item_count < MaxItems
                /\ todos' = todos \cup {todo}
                /\ response' = [kind |-> "todo", todo |-> todo]
    /\ UNCHANGED <<settings_rows, subjects, lessons, next_lesson_id,
                   next_subject_id, notes, resources,
                   requested_cycle_start_date, call,
                   workers, auto_calculated>>

\* datetime.utcnow(): the time of the request, some timestamp that is not None
utcnow == 1

item_of_any_lesson(item_rows, item_id, lesson_id) ==
    {r \in item_rows : r.id = item_id}

\* db.query(Item).filter(Item.id == item_id, Item.lesson_id == lesson_id):
\* the rows with that id under that lesson (none or one)
item_of(item_rows, item_id, lesson_id) ==
    {r \in item_rows : r.id = item_id /\ r.lesson_id = lesson_id}

\* the first() of that query
first_of(rows) == CHOOSE r \in rows : TRUE

get_note(lesson_id, note_id) ==
    /\ request' = [op |-> "get_note", lesson_id |-> lesson_id,
                   item_id |-> note_id]
    /\ response' =
          IF ~lesson_exists(lesson_id) THEN HTTPError(404)
          ELSE IF item_of(notes, note_id, lesson_id) = {} THEN HTTPError(404)
          ELSE [kind |-> "note",
                note |-> first_of(item_of(notes, note_id, lesson_id))]
    /\ UNCHANGED <<store, requested_cycle_start_date, call,
                   workers, auto_calculated>>

\* update_data: the fields of NoteUpdate that the request sets
update_note(lesson_id, note_id, update_data) ==
    /\ request' = [op |-> "update_note", lesson_id |-> lesson_id,
                   item_id |-> note_id]
    /\ IF ~lesson_exists(lesson_id) \/ item_of(notes, note_id, lesson_id) = {}
       THEN /\ response' = HTTPError(404)
            /\ UNCHANGED notes
       ELSE LET note == first_of(item_of(notes, note_id, lesson_id))
                updated == update_data @@ note
            IN  /\ notes' = (notes \ {note}) \cup {updated}
                /\ response' = [kind |-> "note", note |-> updated]
    /\ UNCHANGED <<settings_rows, subjects, lessons, next_lesson_id,
                   next_subject_id, resources, todos,
                   requested_cycle_start_date, call,
                   workers, auto_calculated>>

delete_note(lesson_id, note_id) ==
    /\ request' = [op |-> "delete_note", lesson_id |-> lesson_id,
                   item_id |-> note_id]
    /\ IF ~lesson_exists(lesson_id) \/ item_of(notes, note_id, lesson_id) = {}
       THEN /\ response' = HTTPError(404)
            /\ UNCHANGED notes
       ELSE /\ notes' = notes \ item_of(notes, note_id, lesson_id)
            /\ response' = [kind |-> "no_content"]
    /\ UNCHANGED <<settings_rows, subjects, lessons, next_lesson_id,
                   next_subject_id, resources, todos,
                   requested_cycle_start_date, call,
                   workers, auto_calculated>>

get_resource(lesson_id, resource_id) ==
    /\ request' = [op |-> "get_resource", lesson_id |-> lesson_id,
                   item_id |-> resource_id]
    /\ response' =
          IF ~lesson_exists(lesson_id) THEN HTTPError(404)
          ELSE IF item_of(resources, resource_id, lesson_id) = {}
          THEN HTTPError(404)
          ELSE [kind |-> "resource",
                resource |->
                    first_of(item_of(resources, resource_id, lesson_id))]
    /\ UNCHANGED <<store, requested_cycle_start_date, call,
                   workers, auto_calculated>>

\* update_data: the fields of ResourceUpdate that the request sets
update_resource(lesson_id, resource_id, update_data) ==
    /\ request' = [op |-> "update_resource", lesson_id |-> lesson_id,
                   item_id |-> resource_id]
    /\ IF \/ ~lesson_exists(lesson_id)
          \/ item_of(resources, resource_id, lesson_id) = {}
       THEN /\ response' = HTTPError(404)
            /\ UNCHANGED resources
       ELSE LET resource == first_of(item_of(resources, resource_id,
                                             lesson_id))
                updated == update_data @@ resource
            IN  /\ resources' = (resources \ {resource}) \cup {updated}
                /\ response' = [kind |-> "resource", resource |-> updated]
    /\ UNCHANGED <<settings_rows, subjects, lessons, next_lesson_id,
                   next_subject_id, notes, todos,
                   requested_cycle_start_date, call,
                   workers, auto_calculated>>

delete_resource(lesson_id, resource_id) ==
    /\ request' = [op |-> "delete_resource", lesson_id |-> lesson_id,
                   item_id |-> resource_id]
    /\ IF \/ ~lesson_exists(lesson_id)
          \/ item_of(resources, resource_id, lesson_id) = {}
       THEN /\ response' = HTTPError(404)
            /\ UNCHANGED resources
       ELSE /\ resources' =
                  resources \ item_of(resources, resource_id, lesson_id)
            /\ response' = [kind |-> "no_content"]
    /\ UNCHANGED <<settings_rows, subjects, lessons, next_lesson_id,
                   next_subject_id, notes, todos,
                   requested_cycle_start_date, call,
                   workers, auto_calculated>>

get_todo(lesson_id, todo_id) ==
    /\ request' = [op |-> "get_todo", lesson_id |-> lesson_id,
                   item_id |-> todo_id]
    /\ response' =
          IF ~lesson_exists(lesson_id) THEN HTTPError(404)
          ELSE IF item_of(todos, todo_id, lesson_id) = {} THEN HTTPError(404)
          ELSE [kind |-> "todo",
                todo |-> first_of(item_of(todos, todo_id, lesson_id))]
    /\ UNCHANGED <<store, requested_cycle_start_date, call,
                   workers, auto_calculated>>

\* update_data: the fields of TodoUpdate that the request sets
update_todo(lesson_id, todo_id, update_data) ==
    /\ request' = [op |-> "update_todo", lesson_id |-> lesson_id,
                   item_id |-> todo_id]
    /\ IF ~lesson_exists(lesson_id) \/ item_of(todos, todo_id, lesson_id) = {}
       THEN /\ response' = HTTPError(404)
            /\ UNCHANGED todos
       ELSE LET todo == first_of(item_of(todos, todo_id, lesson_id))
                \* the completion timestamp
                stamped ==
                    IF "is_completed" \notin DOMAIN update_data THEN todo
                    ELSE IF update_data.is_completed /\ ~todo.is_completed
                    THEN [todo EXCEPT !.completed_at = utcnow]
                    ELSE IF ~update_data.is_completed /\ todo.is_completed
                    THEN [todo EXCEPT !.completed_at = NoTime]
                    ELSE todo
                updated == update_data @@ stamped
            IN  /\ todos' = (todos \ {todo}) \cup {updated}
                /\ response' = [kind |-> "todo", todo |-> updated]
    /\ UNCHANGED <<settings_rows, subjects, lessons, next_lesson_id,
                   next_subject_id, notes, resources,
                   requested_cycle_start_date, call,
                   workers, auto_calculated>>

delete_todo(lesson_id, todo_id) ==
    /\ request' = [op |-> "delete_todo", lesson_id |-> lesson_id,
                   item_id |-> todo_id]
    /\ IF ~lesson_exists(lesson_id) \/ item_of(todos, todo_id, lesson_id) = {}
       THEN /\ response' = HTTPError(404)
            /\ UNCHANGED todos
       ELSE /\ todos' = todos \ item_of(todos, todo_id, lesson_id)
            /\ response' = [kind |-> "no_content"]
    /\ UNCHANGED <<settings_rows, subjects, lessons, next_lesson_id,
                   next_subject_id, notes, resources,
                   requested_cycle_start_date, call,
                   workers, auto_calculated>>

toggle_todo(lesson_id, todo_id) ==
    /\ request' = [op |-> "toggle_todo", lesson_id |-> lesson_id,
                   item_id |-> todo_id]
    /\ IF ~lesson_exists(lesson_id) \/ item_of(todos, todo_id, lesson_id) = {}
       THEN /\ response' = HTTPError(404)
            /\ UNCHANGED todos
       ELSE LET todo == first_of(item_of(todos, todo_id, lesson_id))
                is_completed == ~todo.is_completed
                toggled == [todo EXCEPT
                              !.is_completed = is_completed,
                              !.completed_at = IF is_completed THEN utcnow
                                               ELSE NoTime]
            IN  /\ todos' = (todos \ {todo}) \cup {toggled}
                /\ response' = [kind |-> "todo", todo |-> toggled]
    /\ UNCHANGED <<settings_rows, subjects, lessons, next_lesson_id,
                   next_subject_id, notes, resources,
                   requested_cycle_start_date, call,
                   workers, auto_calculated>>

\* ---------------------------------------------------------------------------
\* create_lesson on the threads of the pool: FastAPI runs the handler of each
\* request on a worker thread with a session of its own; the queries and the
\* commit of one request interleave with those of another
\* ---------------------------------------------------------------------------
\* worker t runs the handler up to the insert: the subject query and the
\* duplicate query
create_lesson_check(t, lesson_date, period, subject_id, cycle_day) ==
    /\ workers[t].pc = "idle"
    /\ Cardinality(lessons)
         + Cardinality({u \in WorkerIds : workers[u].pc = "insert"})
         < MaxLessons
    /\ workers' = [workers EXCEPT ![t] =
          IF subject_id \notin subjects
          THEN [pc |-> "idle", status |-> 404]
          ELSE IF existing(lesson_date, period)
          THEN [pc |-> "idle", status |-> 400]
          ELSE [pc |-> "insert", status |-> 0, date |-> lesson_date,
                period |-> period, subject_id |-> subject_id,
                cycle_day |-> cycle_day]]
    /\ UNCHANGED <<store, request, response, requested_cycle_start_date,
                   call, auto_calculated>>

\* worker t runs the rest of the handler: the cycle_day fill-in, db.add and
\* db.commit
create_lesson_insert(t) ==
    /\ workers[t].pc = "insert"
    /\ LET w == workers[t]
           fill_in == w.cycle_day = NoInt /\ settings_rows # <<>>
       IN  IF fill_in /\ ~cycle_start_date_readable(Head(settings_rows))
           THEN /\ workers' = [workers EXCEPT
                                  ![t] = [pc |-> "idle", status |-> 500]]
                /\ UNCHANGED <<lessons, next_lesson_id, auto_calculated>>
           ELSE IF /\ fill_in
                   /\ Head(settings_rows).cycle_start_date # NoDate
                   /\ Head(settings_rows).cycle_length = 0
           THEN /\ workers' = [workers EXCEPT
                                  ![t] = [pc |-> "idle", status |-> 500]]
                /\ UNCHANGED <<lessons, next_lesson_id, auto_calculated>>
           ELSE LET stored_cycle_day ==
                        IF fill_in /\ Head(settings_rows).cycle_start_date
                                         # NoDate
                        THEN calculate_cycle_day(w.date,
                                 Head(settings_rows).cycle_start_date,
                                 Head(settings_rows).cycle_length)
                        ELSE w.cycle_day
                    lesson == [id |-> next_lesson_id, date |-> w.date,
                               period |-> w.period,
                               subject_id |-> w.subject_id,
                               cycle_day |-> stored_cycle_day]
                IN  /\ lessons' = lessons \cup {lesson}
                    /\ next_lesson_id' = next_lesson_id + 1
                    /\ workers' = [workers EXCEPT
                                      ![t] = [pc |-> "idle", status |-> 201]]
                    /\ auto_calculated' =
                          IF w.cycle_day = NoInt
                          THEN auto_calculated \cup {next_lesson_id}
                          ELSE auto_calculated
    /\ UNCHANGED <<settings_rows, subjects, next_subject_id, items, request,
                   response, requested_cycle_start_date, call>>

\* ---------------------------------------------------------------------------
\* The service: requests handled one at a time against an empty database
\* ---------------------------------------------------------------------------
Init ==
    /\ settings_rows = <<>>
    /\ subjects = {}
    /\ lessons = {}
    /\ next_lesson_id = 1
    /\ next_subject_id = 1
    /\ request = [op |-> "none"]
    /\ response = [kind |-> "none"]
    /\ notes = {}
    /\ resources = {}
    /\ todos = {}
    /\ requested_cycle_start_date = NoDate
    /\ call = [fn |-> "none"]
    /\ workers = [t \in WorkerIds |-> [pc |-> "idle", status |-> 0]]
    /\ auto_calculated = {}

Next ==
    \/ get_settings
    \/ \E periods_per_day \in {Unset, 12},
          cycle_length \in UpdateCycleLengths \cup {Unset},
          cycle_start_date \in StartDates \cup {NoDate, Unset} :
            update_settings(update_data_of(periods_per_day, cycle_length,
                                           cycle_start_date))
    \/ \E periods \in PeriodsInputs : set_periods_per_day(periods)
    \/ create_subject
    \/ \E lesson_date \in LessonDates, period \in Periods,
          subject_id \in FirstOrUnknownSubject, cycle_day \in {NoInt, 3} :
            create_lesson(lesson_date, period, subject_id, cycle_day)
    \/ \E start_date \in RequestDates : get_week_timetable(start_date)

Spec == Init /\ [][Next]_vars

\* ---------------------------------------------------------------------------
\* The settings endpoints on their own, with a wider range of values
\* ---------------------------------------------------------------------------
SettingsCycleLengths == (-1)..MaxCycleLength

NextSettings ==
    \/ get_settings
    \/ \E periods_per_day \in {Unset, 5, 12},
          cycle_length \in SettingsCycleLengths \cup {Unset},
          cycle_start_date \in StartDates \cup {NoDate, Unset} :
            update_settings(update_data_of(periods_per_day, cycle_length,
                                           cycle_start_date))
    \/ \E periods \in PeriodsInputs \cup {1} : set_periods_per_day(periods)

SpecSettings == Init /\ [][NextSettings]_vars

\* ---------------------------------------------------------------------------
\* The subject and lesson endpoints with the week view (no settings row)
\* ---------------------------------------------------------------------------
NextLessons ==
    \/ create_subject
    \/ \E subject_id \in SubjectIds : delete_subject(subject_id)
    \/ \E lesson_date \in LessonDates, period \in Periods,
          subject_id \in FirstOrUnknownSubject :
            create_lesson(lesson_date, period, subject_id, 3)
    \/ \E lesson_id \in LessonIds, lesson_date \in LessonDates \cup {Unset},
          period \in Periods \cup {Unset},
          subject_id \in FirstOrUnknownSubject \cup {Unset} :
            update_lesson(lesson_id,
                          lesson_update_data_of(lesson_date, period,
                                                subject_id, Unset))
    \/ \E lesson_id \in LessonIds : delete_lesson(lesson_id)
    \/ \E start_date \in LessonDates : get_week_timetable(start_date)

SpecLessons == Init /\ [][NextLessons]_vars

\* ---------------------------------------------------------------------------
\* The lesson items: subjects, lessons in one slot per period, their notes,
\* resources and todos, and the week view
\* ---------------------------------------------------------------------------
NextItems ==
    \/ create_subject
    \/ \E subject_id \in SubjectIds : delete_subject(subject_id)
    \/ \E period \in Periods, subject_id \in SubjectIds :
            create_lesson(DateBase, period, subject_id, 3)
    \/ \E lesson_id \in LessonIds, subject_id \in SubjectIds :
            update_lesson(lesson_id,
                          lesson_update_data_of(Unset, Unset, subject_id,
                                                Unset))
    \/ \E lesson_id \in LessonIds : delete_lesson(lesson_id)
    \/ \E lesson_id \in LessonIds : create_note(lesson_id)
    \/ \E lesson_id \in LessonIds : create_resource(lesson_id)
    \/ \E lesson_id \in LessonIds : create_todo(lesson_id, FALSE)
    \/ get_week_timetable(DateBase)

SpecItems == Init /\ [][NextItems]_vars

\* ---------------------------------------------------------------------------
\* The lesson items slice: requests on notes, resources and todos under
\* their parent lessons
\* ---------------------------------------------------------------------------
ItemIds == {1, 2}

\* items are created under lesson 1; requests name lesson 1, the other
\* lesson and an unknown lesson
NextItemRequests ==
    \/ create_subject
    \/ \E lesson_date \in LessonDates : create_lesson(lesson_date, 1, 1, 3)
    \/ create_note(1)
    \/ create_resource(1)
    \/ create_todo(1, FALSE)
    \/ \E lesson_id \in LessonIds, note_id \in ItemIds :
            get_note(lesson_id, note_id)
    \/ \E lesson_id \in LessonIds, note_id \in ItemIds :
            update_note(lesson_id, note_id, [content |-> "updated"])
    \/ \E lesson_id \in LessonIds, note_id \in ItemIds :
            delete_note(lesson_id, note_id)
    \/ \E lesson_id \in LessonIds, resource_id \in ItemIds :
            get_resource(lesson_id, resource_id)
    \/ \E lesson_id \in LessonIds, resource_id \in ItemIds :
            update_resource(lesson_id, resource_id, [title |-> "updated"])
    \/ \E lesson_id \in LessonIds, resource_id \in ItemIds :
            delete_resource(lesson_id, resource_id)
    \/ \E lesson_id \in LessonIds, todo_id \in ItemIds :
            get_todo(lesson_id, todo_id)
    \/ \E lesson_id \in LessonIds, todo_id \in ItemIds :
            update_todo(lesson_id, todo_id, [is_completed |-> TRUE])
    \/ \E lesson_id \in LessonIds, todo_id \in ItemIds :
            delete_todo(lesson_id, todo_id)
    \/ \E lesson_id \in LessonIds, todo_id \in ItemIds :
            toggle_todo(lesson_id, todo_id)

SpecItemRequests == Init /\ [][NextItemRequests]_vars

\* ---------------------------------------------------------------------------
\* The todos slice: the completion state of the todos of one lesson
\* ---------------------------------------------------------------------------
NextTodos ==
    \/ create_subject
    \/ create_lesson(DateBase, 1, 1, 3)
    \/ \E lesson_id \in {1, MaxLessons + 1}, is_completed \in BOOLEAN :
            create_todo(lesson_id, is_completed)
    \/ \E todo_id \in ItemIds :
            \E update_data \in {<<>>, [is_completed |-> TRUE],
                                [is_completed |-> FALSE]} :
                update_todo(1, todo_id, update_data)
    \/ \E todo_id \in ItemIds : toggle_todo(1, todo_id)
    \/ \E todo_id \in ItemIds : delete_todo(1, todo_id)

SpecTodos == Init /\ [][NextTodos]_vars

\* ---------------------------------------------------------------------------
\* The threads slice: create_lesson requests handled on two worker threads
\* ---------------------------------------------------------------------------
NextThreads ==
    \/ create_subject
    \/ \E t \in WorkerIds, lesson_date \in LessonDates, period \in Periods,
          subject_id \in FirstOrUnknownSubject :
            create_lesson_check(t, lesson_date, period, subject_id, 3)
    \/ \E t \in WorkerIds : create_lesson_insert(t)

SpecThreads == Init /\ [][NextThreads]_vars

\* ---------------------------------------------------------------------------
\* The calculator: the pure functions of routers/lessons.py applied to
\* inputs drawn from bounded sets
\* ---------------------------------------------------------------------------
\* lesson rows handed to the week assembly
SampleLessons ==
    {[id |-> 1, date |-> DateBase + 1, period |-> 2, subject_id |-> 1,
      cycle_day |-> NoInt],
     [id |-> 2, date |-> DateBase + 1, period |-> 1, subject_id |-> 1,
      cycle_day |-> NoInt]}

apply_count_working_days_between(start_date, end_date) ==
    /\ call.fn = "none"
    /\ call' = [fn |-> "count_working_days_between",
                start_date |-> start_date, end_date |-> end_date,
                result |-> count_working_days_between(start_date, end_date)]
    /\ UNCHANGED <<store, request, response, requested_cycle_start_date,
                   workers, auto_calculated>>

apply_calculate_cycle_day(target_date, cycle_start_date, cycle_length) ==
    /\ call.fn = "none"
    /\ call' = [fn |-> "calculate_cycle_day",
                target_date |-> target_date,
                cycle_start_date |-> cycle_start_date,
                cycle_length |-> cycle_length,
                result |-> calculate_cycle_day(target_date, cycle_start_date,
                                               cycle_length)]
    /\ UNCHANGED <<store, request, response, requested_cycle_start_date,
                   workers, auto_calculated>>

apply_get_week_label(cycle_day, cycle_length) ==
    /\ call.fn = "none"
    /\ call' = [fn |-> "get_week_label",
                cycle_day |-> cycle_day, cycle_length |-> cycle_length,
                result |-> get_week_label(cycle_day, cycle_length)]
    /\ UNCHANGED <<store, request, response, requested_cycle_start_date,
                   workers, auto_calculated>>

apply_week_assembly(start_date, cycle_start_date, cycle_length, rows) ==
    /\ call.fn = "none"
    /\ call' = [fn |-> "get_week_timetable",
                start_date |-> start_date,
                cycle_start_date |-> cycle_start_date,
                cycle_length |-> cycle_length,
                rows |-> rows,
                result |-> WeekTimetable(start_date, cycle_start_date,
                                         cycle_length, DefaultPeriodsPerDay,
                                         rows)]
    /\ UNCHANGED <<store, request, response, requested_cycle_start_date,
                   workers, auto_calculated>>

\* the cycle lengths handed to the pure functions: the small ones and the
\* default of the Settings model
CalcCycleLengths == CycleLengths \cup {DefaultCycleLength}

\* one application per run
NextCalc ==
    \/ \E start_date \in Dates, end_date \in Dates :
            apply_count_working_days_between(start_date, end_date)
    \/ \E target_date \in Dates, cycle_start_date \in Dates,
          cycle_length \in CalcCycleLengths :
            apply_calculate_cycle_day(target_date, cycle_start_date,
                                      cycle_length)
    \/ \E cycle_length \in CalcCycleLengths :
          \E cycle_day \in 1..cycle_length :
            apply_get_week_label(cycle_day, cycle_length)
    \/ \E start_date \in RequestDates, cycle_start_date \in Dates \cup {NoDate},
          cycle_length \in CalcCycleLengths, rows \in SUBSET SampleLessons :
            apply_week_assembly(start_date, cycle_start_date, cycle_length,
                                rows)

SpecCalc == Init /\ [][NextCalc]_vars

\* ===========================================================================
\* Properties
\* ===========================================================================

\* C1: for every cycle_start_date, every cycle_length L >= 1 and every target
\* date (before, on or after the start), calculate_cycle_day returns an
\* integer in [1, L].
C1_CycleDayInRange ==
    call.fn = "calculate_cycle_day" =>
        /\ call.result \in Int
        /\ 1 <= call.result
        /\ call.result <= call.cycle_length

\* a target before the cycle start whose working-day count is negative and
\* not a multiple of the cycle length
C1_Witness ==
    /\ call.fn = "calculate_cycle_day"
    /\ call.target_date < call.cycle_start_date
    /\ count_working_days_between(call.cycle_start_date, call.target_date) < 0
    /\ call.cycle_length > 1
    /\ call.result = call.cycle_length

\* C3: for start <= end, count_working_days_between(start, end) is the number
\* of dates d with start < d <= end that are Monday..Friday; start itself is
\* never counted and the result is 0 when start = end.
C3_CountsWeekdaysAfterStart ==
    (call.fn = "count_working_days_between" /\ call.start_date <= call.end_date)
    =>  /\ call.result =
              Cardinality({d \in (call.start_date + 1)..call.end_date :
                              weekday(d) \in 0..4})
        /\ (call.start_date = call.end_date => call.result = 0)

\* a Monday start and the Monday one week later: 5 working days, the start
\* Monday not among them
C3_Witness ==
    /\ call.fn = "count_working_days_between"
    /\ weekday(call.start_date) = 0
    /\ call.end_date = call.start_date + 7
    /\ call.result = 5

\* C4: count_working_days_between is antisymmetric:
\* count_working_days_between(a, b) = -count_working_days_between(b, a)
\* for all date pairs.
C4_Antisymmetric ==
    call.fn = "count_working_days_between" =>
        call.result =
            -count_working_days_between(call.end_date, call.start_date)

\* an end date before the start date with a negative count
C4_Witness ==
    /\ call.fn = "count_working_days_between"
    /\ call.end_date < call.start_date
    /\ call.result < 0

\* the working day after a Monday..Friday date
next_working_day(d) == IF weekday(d) = 4 THEN d + 3 ELSE d + 1

\* the Friday before a Saturday or Sunday
friday_before(d) == d - (weekday(d) - 4)

\* C5: the cycle advances exactly one step per working day and never on
\* weekends, on both sides of cycle_start_date and for a start on any
\* weekday: for a Monday..Friday date d with next working day d2,
\* cycle_day(d2) = (cycle_day(d) mod L) + 1; a Saturday or Sunday has the
\* cycle day of the Friday before it.
C5_OneStepPerWorkingDay ==
    call.fn = "calculate_cycle_day" =>
        LET d == call.target_date
            s == call.cycle_start_date
            L == call.cycle_length
        IN  /\ weekday(d) < 5 =>
                  calculate_cycle_day(next_working_day(d), s, L)
                      = (call.result % L) + 1
            /\ weekday(d) >= 5 =>
                  call.result = calculate_cycle_day(friday_before(d), s, L)

\* a cycle starting on a Saturday, evaluated on the Friday just before it:
\* the step to the next working day crosses the cycle start
C5_Witness ==
    /\ call.fn = "calculate_cycle_day"
    /\ weekday(call.cycle_start_date) = 5
    /\ call.target_date = call.cycle_start_date - 1
    /\ call.cycle_length = 3
    /\ call.result = 1
    /\ calculate_cycle_day(call.target_date + 3, call.cycle_start_date, 3) = 2

\* C2 (as claimed): after update_settings was called with cycle_start_date = s,
\* every later get_week_timetable request (no change of cycle_start_date in
\* between) returns five days whose cycle_day is
\* calculate_cycle_day(day.date, s, cycle_length), in [1, cycle_length], with
\* label "Week A" or "Week B"; it never reports cycle_day 0 / "Not configured"
\* and never fails.
C2_ConfiguredStartIsUsed ==
    (/\ request.op = "get_week_timetable"
     /\ requested_cycle_start_date # NoDate
     /\ Head(settings_rows).cycle_length >= 1)
    =>  /\ response.kind = "week"
        /\ \A i \in 1..5 :
              LET day == response.days[i]
              IN  /\ day.cycle_day =
                        calculate_cycle_day(day.date,
                                            requested_cycle_start_date,
                                            Head(settings_rows).cycle_length)
                  /\ day.cycle_day \in 1..Head(settings_rows).cycle_length
                  /\ day.week_label \in {"Week A", "Week B"}

\* C6 (as claimed): for every cycle_length L >= 1, as cycle_day goes from 1 to
\* L the is_week_a flag changes from true to false exactly once, at
\* cycle_day = floor(L/2) + 1, so cycle_day 1 is always "Week A".
C6_SingleTransitionEveryLength ==
    call.fn = "get_week_label" =>
        LET L == call.cycle_length
            flag(d) == get_week_label(d, L).is_week_a
        IN  /\ flag(1)
            /\ get_week_label(1, L).label = "Week A"
            /\ \A d \in 1..L : flag(d) <=> d < (L \div 2) + 1

\* C6 (amended): for every cycle_length L >= 2 the is_week_a flag changes from
\* true to false exactly once as cycle_day goes from 1 to L, at
\* cycle_day = floor(L/2) + 1, and cycle_day 1 is "Week A"; for L = 1 the
\* single cycle day 1 is "Week B" and the flag never changes.
C6_SingleTransitionFromLengthTwo ==
    call.fn = "get_week_label" =>
        LET L == call.cycle_length
            flag(d) == get_week_label(d, L).is_week_a
        IN  /\ call.result.is_week_a = flag(call.cycle_day)
            /\ call.result.label =
                  (IF call.result.is_week_a THEN "Week A" ELSE "Week B")
            /\ L >= 2 =>
                  /\ flag(1)
                  /\ ~flag(L)
                  /\ {d \in 2..L : flag(d - 1) /\ ~flag(d)} = {(L \div 2) + 1}
                  /\ {d \in 2..L : ~flag(d - 1) /\ flag(d)} = {}
            /\ L = 1 => ~flag(1) /\ get_week_label(1, L).label = "Week B"

\* an odd cycle length, asked at the first day of the second half
C6_Witness ==
    /\ call.fn = "get_week_label"
    /\ call.cycle_length = 5
    /\ call.cycle_day = 3
    /\ call.result = [is_week_a |-> FALSE, label |-> "Week B"]

\* C7 (as claimed): for every requested start_date (any weekday) and every
\* store state, get_week_timetable returns exactly 5 days in order; day i
\* (i = 0..4) has date week_start + i, weekday index i and the names Monday,
\* Tuesday, Wednesday, Thursday, Friday.
C7_FiveDaysMondayToFriday ==
    request.op = "get_week_timetable" =>
        /\ response.kind = "week"
        /\ Len(response.days) = 5
        /\ \A i \in 0..4 :
              /\ response.days[i + 1].date = response.week_start + i
              /\ response.days[i + 1].weekday = i
              /\ response.days[i + 1].weekday_name =
                    <<"Monday", "Tuesday", "Wednesday", "Thursday",
                      "Friday">>[i + 1]

\* C8: week normalisation snaps backward only: the returned week_start is a
\* Monday with week_start <= start_date <= week_start + 6, week_end is
\* week_start + 4, and a start_date that is a Monday is returned unchanged.
C8_SnapsBackToMonday ==
    (request.op = "get_week_timetable" /\ response.kind = "week") =>
        /\ weekday(response.week_start) = 0
        /\ response.week_start <= request.start_date
        /\ request.start_date <= response.week_start + 6
        /\ response.week_end = response.week_start + 4
        /\ (weekday(request.start_date) = 0
               => response.week_start = request.start_date)

\* a week view returned for a Sunday: the week starts six days earlier
C8_Witness ==
    /\ request.op = "get_week_timetable"
    /\ response.kind = "week"
    /\ weekday(request.start_date) = 6
    /\ response.week_start = request.start_date - 6

\* C9 (as claimed): when no cycle_start_date is configured (no settings row,
\* or a row without a start date), get_week_timetable returns, for every
\* requested date, five days with cycle_day 0, is_week_a true and week_label
\* "Not configured", and primary_week "Not configured"; it raises no error.
C9_UnconfiguredFallback ==
    (/\ request.op = "get_week_timetable"
     /\ \/ settings_rows = <<>>
        \/ ~cycle_start_date_readable(Head(settings_rows))
        \/ Head(settings_rows).cycle_start_date = NoDate)
    =>  /\ response.kind = "week"
        /\ response.primary_week = "Not configured"
        /\ Len(response.days) = 5
        /\ \A i \in 1..5 :
              /\ response.days[i].cycle_day = 0
              /\ response.days[i].is_week_a
              /\ response.days[i].week_label = "Not configured"

\* C10: the primary_week of every week view is the week_label of its Monday
\* (days[0]), also when the half-label changes between Monday and Friday.
C10_PrimaryWeekIsMondayLabel ==
    call.fn = "get_week_timetable" =>
        /\ call.result.days[1].weekday = 0
        /\ call.result.primary_week = call.result.days[1].week_label

\* a configured week whose Monday is "Week A" and whose Friday is "Week B"
C10_Witness ==
    /\ call.fn = "get_week_timetable"
    /\ call.cycle_start_date # NoDate
    /\ call.result.days[1].week_label = "Week A"
    /\ call.result.days[5].week_label = "Week B"
    /\ call.result.primary_week = "Week A"

\* the elements of a sequence
elements(seq) == {seq[k] : k \in 1..Len(seq)}

\* C11: in every week view the lessons attached to a day are exactly the
\* stored lessons of that day's date, in ascending period order; a stored
\* lesson dated outside [week_start, week_end] (the Saturday and Sunday of the
\* week included) is in no day, and a day without lessons has an empty list.
C11_DayLessons ==
    (request.op = "get_week_timetable" /\ response.kind = "week") =>
        /\ \A i \in 1..5 :
              LET day == response.days[i]
                  on_date == {l \in lessons : l.date = day.date}
              IN  /\ elements(day.lessons) = on_date
                  /\ Len(day.lessons) = Cardinality(on_date)
                  /\ \A k \in 1..(Len(day.lessons) - 1) :
                        day.lessons[k].period <= day.lessons[k + 1].period
                  /\ (on_date = {} => day.lessons = <<>>)
        /\ \A l \in lessons :
              (l.date < response.week_start \/ l.date > response.week_end)
                  => \A i \in 1..5 : l \notin elements(response.days[i].lessons)

\* the week of a stored Monday lesson and a stored Saturday lesson: Monday
\* lists the one, the Saturday lesson is in no day
C11_Witness ==
    /\ request.op = "get_week_timetable"
    /\ response.kind = "week"
    /\ \E m \in lessons, sat \in lessons :
          /\ m.date = response.week_start
          /\ sat.date = response.week_start + 5
          /\ response.days[1].lessons = <<m>>
          /\ \A i \in 2..5 : response.days[i].lessons = <<>>

\* C12 (as claimed): after any sequence of create_lesson, update_lesson,
\* delete_lesson and delete_subject from an empty store there is at most one
\* lesson for each (date, period) pair.
C12_OneLessonPerSlot ==
    \A a \in lessons, b \in lessons :
        (a.date = b.date /\ a.period = b.period) => a.id = b.id

\* a create_lesson step
create_lesson_step == request'.op = "create_lesson"

slot_taken(lesson_date, period) ==
    \E l \in lessons : l.date = lesson_date /\ l.period = period

\* C13 (as claimed): create_lesson rejects a request whose (date, period) is
\* taken by a stored lesson with 400 and a request whose subject_id names no
\* stored subject with 404; both leave lessons, subjects and settings
\* unchanged.
C13_RejectsTakenSlotAndUnknownSubject ==
    [][create_lesson_step =>
          /\ slot_taken(request'.date, request'.period) =>
                /\ response' = HTTPError(400)
                /\ UNCHANGED store
          /\ request'.subject_id \notin subjects =>
                /\ response' = HTTPError(404)
                /\ UNCHANGED store]_vars

\* C13 (amended): an unknown subject_id is rejected with 404, also when the
\* slot is taken; a taken slot is rejected with 400 when the subject exists;
\* both leave lessons, subjects and settings unchanged.
C13_RejectsUnknownSubjectThenTakenSlot ==
    [][create_lesson_step =>
          /\ request'.subject_id \notin subjects =>
                /\ response' = HTTPError(404)
                /\ UNCHANGED store
          /\ (/\ request'.subject_id \in subjects
              /\ slot_taken(request'.date, request'.period)) =>
                /\ response' = HTTPError(400)
                /\ UNCHANGED store]_vars

\* a request for a taken slot of an existing subject was answered with 400
\* while a settings row is stored
C13_Witness ==
    /\ request.op = "create_lesson"
    /\ response = HTTPError(400)
    /\ request.subject_id \in subjects
    /\ slot_taken(request.date, request.period)
    /\ settings_rows # <<>>

\* C14: the week assembly does not deduplicate: two stored lessons with the
\* same (date, period) inside the requested week both appear in that day's
\* list.
C14_NoDeduplication ==
    (request.op = "get_week_timetable" /\ response.kind = "week") =>
        \A a \in lessons, b \in lessons :
            (/\ a.id # b.id
             /\ a.date = b.date
             /\ a.period = b.period
             /\ a.date >= response.week_start
             /\ a.date <= response.week_end)
            => \E i \in 1..5 :
                  /\ response.days[i].date = a.date
                  /\ {a, b} \subseteq elements(response.days[i].lessons)
                  /\ Len(response.days[i].lessons) >= 2

\* a week view of a Monday that holds two lessons in the same period
C14_Witness ==
    /\ request.op = "get_week_timetable"
    /\ response.kind = "week"
    /\ Len(response.days[1].lessons) = 2
    /\ response.days[1].lessons[1].period = response.days[1].lessons[2].period
    /\ response.days[1].lessons[1].id # response.days[1].lessons[2].id

\* C15 (as claimed): after any sequence of get_settings, update_settings and
\* set_periods_per_day requests the stored cycle_length is at least 1.
C15_CycleLengthAtLeastOne ==
    settings_rows # <<>> => Head(settings_rows).cycle_length >= 1

\* C16 (as claimed): get_week_timetable is total: in every reachable store
\* state it returns a week view and never an error.
C16_WeekViewIsTotal ==
    request.op = "get_week_timetable" => response.kind = "week"

C18_WeekViewHasNoSideEffects ==
    [][request'.op = "get_week_timetable" =>
          /\ settings_rows' = settings_rows
          /\ subjects' = subjects
          /\ lessons' = lessons
          /\ notes' = notes
          /\ resources' = resources
          /\ todos' = todos]_vars

\* a week view was returned from a store with subjects, lessons and items of
\* every kind and no settings row
C18_Witness ==
    /\ request.op = "get_week_timetable"
    /\ response.kind = "week"
    /\ settings_rows = <<>>
    /\ subjects # {}
    /\ lessons # {}
    /\ notes # {}
    /\ todos # {}

\* a request of routers/settings.py that was answered with the settings
settings_request_completed ==
    /\ request'.op \in {"get_settings", "update_settings",
                        "set_periods_per_day"}
    /\ response'.kind = "settings"

\* C19: the settings table holds at most one row, and exactly one once a
\* get_settings, update_settings or set_periods_per_day request has
\* completed; the first such request creates the row from the defaults
\* (periods_per_day 6, cycle_length 10, each unless that request sets it) and
\* later requests reuse that row.
C19_SettingsSingleton ==
    [][/\ Len(settings_rows') <= 1
       /\ settings_request_completed => Len(settings_rows') = 1
       /\ settings_rows # <<>> =>
             /\ Len(settings_rows') = 1
             /\ Head(settings_rows').id = Head(settings_rows).id
       /\ (settings_rows = <<>> /\ settings_rows' # <<>>) =>
             LET created == Head(settings_rows')
             IN  /\ settings_request_completed
                 /\ created.id = NewSettings.id
                 /\ created.current_year = DefaultYear
                 /\ created.current_semester = DefaultSemester
                 /\ created.periods_per_day \in
                       {DefaultPeriodsPerDay, response'.periods_per_day}
                 /\ created.cycle_length \in
                       {DefaultCycleLength, response'.cycle_length}
                 /\ request'.op = "get_settings" => created = NewSettings]_vars

\* the row exists, an update changed it, and a later get_settings reused it
C19_Witness ==
    /\ request.op = "get_settings"
    /\ Len(settings_rows) = 1
    /\ Head(settings_rows) # NewSettings
    /\ Head(settings_rows).id = NewSettings.id

\* the ids of the lessons of a subject
lessons_of_subject(subject_id) ==
    {l.id : l \in {m \in lessons : m.subject_id = subject_id}}

\* the rows of an item table that belong to none of the given lessons
items_outside(item_rows, lesson_ids) ==
    {r \in item_rows : ~(r.lesson_id \in lesson_ids)}

\* C20: deletion cascades. After a successful delete_subject(s) no lesson of
\* subject s and no note, resource or todo of such a lesson remains; after a
\* successful delete_lesson(l) no note, resource or todo of lesson l remains;
\* lessons of other subjects and items of other lessons are unchanged.
C20_CascadeDelete ==
    [][/\ (request'.op = "delete_subject" /\ response'.kind = "no_content") =>
             LET gone == lessons_of_subject(request'.subject_id)
             IN  /\ request'.subject_id \notin subjects'
                 /\ lessons' = {l \in lessons :
                                   l.subject_id # request'.subject_id}
                 /\ notes' = items_outside(notes, gone)
                 /\ resources' = items_outside(resources, gone)
                 /\ todos' = items_outside(todos, gone)
       /\ (request'.op = "delete_lesson" /\ response'.kind = "no_content") =>
             LET gone == {request'.lesson_id}
             IN  /\ lessons' = {l \in lessons : l.id # request'.lesson_id}
                 /\ notes' = items_outside(notes, gone)
                 /\ resources' = items_outside(resources, gone)
                 /\ todos' = items_outside(todos, gone)]_vars

\* subject 1 was deleted with its lesson 1; lesson 2 of subject 2 and an item
\* of lesson 2 are still stored
C20_Witness ==
    /\ request = [op |-> "delete_subject", subject_id |-> 1]
    /\ response.kind = "no_content"
    /\ subjects = {2}
    /\ ids_of(lessons) = {2}
    /\ item_count > 0
    /\ \A r \in notes \cup resources : r.lesson_id = 2
    /\ \A t \in todos : t.lesson_id = 2

\* C21: on the cycle start date itself the cycle is at day 1 for every cycle
\* length, and with cycle_length 10 that day is labelled "Week A".
C21_StartDateIsDayOne ==
    /\ (call.fn = "calculate_cycle_day"
            /\ call.target_date = call.cycle_start_date)
          => /\ call.result = 1
             /\ call.cycle_length = DefaultCycleLength =>
                   get_week_label(call.result, call.cycle_length).label
                       = "Week A"
    /\ (call.fn = "get_week_timetable" /\ call.cycle_start_date # NoDate) =>
          \A i \in 1..5 :
              call.result.days[i].date = call.cycle_start_date =>
                  /\ call.result.days[i].cycle_day = 1
                  /\ call.cycle_length = DefaultCycleLength =>
                        /\ call.result.days[i].is_week_a
                        /\ call.result.days[i].week_label = "Week A"

\* the week of a Wednesday cycle start with cycle_length 10: Wednesday is
\* day 1 of "Week A"
C21_Witness ==
    /\ call.fn = "get_week_timetable"
    /\ call.cycle_length = DefaultCycleLength
    /\ call.result.days[3].date = call.cycle_start_date
    /\ call.result.days[3].cycle_day = 1
    /\ call.result.days[3].week_label = "Week A"

\* C22: for every Monday cycle start s with cycle_length 10, the Monday 7
\* days later is 5 working days on, cycle day 6, not Week A, "Week B".
C22_NextMondayIsDaySix ==
    /\ (call.fn = "count_working_days_between"
            /\ weekday(call.start_date) = 0
            /\ call.end_date = call.start_date + 7)
          => call.result = 5
    /\ (call.fn = "calculate_cycle_day"
            /\ weekday(call.cycle_start_date) = 0
            /\ call.cycle_length = 10
            /\ call.target_date = call.cycle_start_date + 7)
          => /\ call.result = 6
             /\ get_week_label(call.result, 10)
                   = [is_week_a |-> FALSE, label |-> "Week B"]
    /\ (call.fn = "get_week_timetable"
            /\ call.cycle_start_date # NoDate
            /\ weekday(call.cycle_start_date) = 0
            /\ call.cycle_length = 10
            /\ call.result.week_start = call.cycle_start_date + 7)
          => /\ call.result.days[1].cycle_day = 6
             /\ call.result.days[1].is_week_a = FALSE
             /\ call.result.days[1].week_label = "Week B"
             /\ call.result.primary_week = "Week B"

\* the week view of Monday 2025-02-03 for the cycle started on 2025-01-27
C22_Witness ==
    /\ call.fn = "get_week_timetable"
    /\ call.cycle_start_date = DateBase
    /\ call.cycle_length = 10
    /\ call.result.week_start = DateBase + 7
    /\ call.result.days[1].cycle_day = 6
    /\ call.result.days[1].week_label = "Week B"

\* C23: with a Monday cycle start and cycle_length 10 the cycle is aligned to
\* calendar weeks before and after the start: every Monday is cycle day 1 or
\* 6, Monday..Friday of a week are days 1..5 (all "Week A") or 6..10 (all
\* "Week B"), and the next calendar week has the other label.
C23_AlignedToCalendarWeeks ==
    (/\ call.fn = "get_week_timetable"
     /\ call.cycle_start_date # NoDate
     /\ weekday(call.cycle_start_date) = 0
     /\ call.cycle_length = 10)
    => LET days == call.result.days
           following == WeekTimetable(call.result.week_start + 7,
                                      call.cycle_start_date, call.cycle_length,
                                      call.result.periods_per_day, {}).days
       IN  /\ days[1].cycle_day \in {1, 6}
           /\ \A i \in 1..5 :
                 /\ days[i].cycle_day = days[1].cycle_day + i - 1
                 /\ days[i].is_week_a = (days[1].cycle_day = 1)
                 /\ days[i].week_label =
                       IF days[1].cycle_day = 1 THEN "Week A" ELSE "Week B"
           /\ \A i \in 1..5 :
                 /\ following[i].is_week_a = ~days[i].is_week_a
                 /\ following[i].week_label # days[i].week_label

\* a week that lies before the Monday cycle start and is "Week B": days 6..10
C23_Witness ==
    /\ call.fn = "get_week_timetable"
    /\ call.cycle_start_date # NoDate
    /\ weekday(call.cycle_start_date) = 0
    /\ call.cycle_length = 10
    /\ call.result.week_end < call.cycle_start_date
    /\ call.result.days[1].cycle_day = 6
    /\ call.result.days[5].cycle_day = 10
    /\ call.result.days[5].week_label = "Week B"

\* C24: referential integrity: every stored lesson's subject_id names a
\* stored subject, and every stored note, resource and todo has a lesson_id
\* that names a stored lesson.
C24_ReferentialIntegrity ==
    /\ \A l \in lessons : l.subject_id \in subjects
    /\ \A n \in notes : \E l \in lessons : l.id = n.lesson_id
    /\ \A r \in resources : \E l \in lessons : l.id = r.lesson_id
    /\ \A t \in todos : \E l \in lessons : l.id = t.lesson_id

\* a lesson was deleted while another lesson with items of its own stays
C24_Witness ==
    /\ request.op = "delete_lesson"
    /\ response.kind = "no_content"
    /\ lessons # {}
    /\ item_count > 0

\* C26 (as claimed): after any sequence of create_todo, update_todo and
\* toggle_todo every stored todo has completed_at set if and only if
\* is_completed is true.
C26_CompletedAtIffCompleted ==
    \A t \in todos : (t.completed_at # NoTime) <=> t.is_completed

\* the tables a lesson-item request works on
item_table(op) ==
    IF op \in {"get_note", "update_note", "delete_note"} THEN notes
    ELSE IF op \in {"get_resource", "update_resource", "delete_resource"}
    THEN resources
    ELSE todos

ItemRequests ==
    {"get_note", "update_note", "delete_note",
     "get_resource", "update_resource", "delete_resource",
     "get_todo", "update_todo", "delete_todo", "toggle_todo"}

\* C30: an item is reachable only through its own parent lesson: a get,
\* update, delete or toggle request with the id of a stored item and a
\* lesson_id that is not that item's lesson_id (unknown, or another stored
\* lesson) is answered 404 and leaves every stored item unchanged.
C30_ItemOnlyThroughItsLesson ==
    [][(/\ request'.op \in ItemRequests
        /\ \E r \in item_table(request'.op) :
              /\ r.id = request'.item_id
              /\ r.lesson_id # request'.lesson_id)
       => /\ response' = HTTPError(404)
          /\ notes' = notes
          /\ resources' = resources
          /\ todos' = todos]_vars

\* a toggle of a todo of lesson 1 requested under the other stored lesson
\* was answered 404
C30_Witness ==
    /\ request.op = "toggle_todo"
    /\ request.lesson_id = 2
    /\ \E l \in lessons : l.id = 2
    /\ \E t \in todos : t.id = request.item_id /\ t.lesson_id = 1
    /\ response = HTTPError(404)

\* C27: set_periods_per_day rejects periods < 1 or periods > 12 with 400 and
\* leaves the stored settings unchanged, creating no row; for 1 <= periods <=
\* 12 it sets periods_per_day to that value and leaves cycle_length,
\* current_year and current_semester as they were.
C27_SetPeriodsPerDay ==
    [][request'.op = "set_periods_per_day" =>
          IF request'.periods < 1 \/ request'.periods > 12
          THEN /\ response' = HTTPError(400)
               /\ settings_rows' = settings_rows
          ELSE LET before == IF settings_rows = <<>> THEN NewSettings
                             ELSE Head(settings_rows)
                   after == Head(settings_rows')
               IN  /\ Len(settings_rows') = 1
                   /\ after.periods_per_day = request'.periods
                   /\ after.cycle_length = before.cycle_length
                   /\ after.current_year = before.current_year
                   /\ after.current_semester = before.current_semester
                   /\ response'.kind = "settings"
                   /\ response'.periods_per_day = request'.periods]_vars

\* 13 periods were rejected while no settings row exists, and none was made
C27_Witness ==
    /\ request = [op |-> "set_periods_per_day", periods |-> 13]
    /\ response = HTTPError(400)
    /\ settings_rows = <<>>

\* the cycle_start_date that is configured: the one the last PUT /settings
\* with a cycle_start_date asked to store
configured_cycle_start_date == requested_cycle_start_date

\* C25 (as claimed): create_lesson fills in cycle_day only when the request
\* gives none and a cycle_start_date is configured, then with
\* calculate_cycle_day(date, cycle_start_date, cycle_length); a cycle_day of
\* the request is stored unchanged; with no cycle_start_date configured the
\* stored cycle_day stays empty.
C25_CycleDayFilledIn ==
    (/\ request.op = "create_lesson"
     /\ response # HTTPError(404)
     /\ response # HTTPError(400))
    => /\ response.kind = "lesson"
       /\ response.lesson \in lessons
       /\ response.lesson.cycle_day =
             IF request.cycle_day # NoInt THEN request.cycle_day
             ELSE IF configured_cycle_start_date = NoDate THEN NoInt
             ELSE calculate_cycle_day(request.date,
                                      configured_cycle_start_date,
                                      Head(settings_rows).cycle_length)

\* C28 (as claimed): two concurrent create_lesson requests for the same
\* (date, period) cannot both succeed: in every interleaving of their
\* check-for-existing and insert steps at most one lesson for that slot is
\* stored.
C28_ConcurrentCreatesOneSlot ==
    \A lesson_date \in LessonDates, period \in Periods :
        Cardinality({l \in lessons : /\ l.date = lesson_date
                                     /\ l.period = period}) <= 1

====
